---- MODULE Spec2Model ----
(***************************************************************************)
(* Model of the technician chatbot's decision core as generated by         *)
(* src/setup.py: the RAGSystem (index_documents / retrieve_context) and    *)
(* the keyword IntentClassifier (load_or_create_model / save_model /       *)
(* classify / _determine_route).                                           *)
(*                                                                         *)
(* Strings are modelled as sequences: a document or a query is the         *)
(* sequence of its whitespace-delimited tokens (what str.split() yields),  *)
(* a classifier text or keyword is a sequence of characters.  Floats are   *)
(* modelled as exact fractions [num, den]; for the denominators within the *)
(* bounds used here Python's float division, float accumulation and float  *)
(* comparison agree with the exact fractions.                              *)
(***************************************************************************)
EXTENDS Integers, Sequences, FiniteSets, TLC

VARIABLES
    documents,        \* RAGSystem.documents: list of document texts
    metadata,         \* RAGSystem.metadata: list of {filename, source}
    ret,              \* the last call on the RAGSystem and what it returned
    intent_keywords,  \* IntentClassifier.intent_keywords: the intent table
    model_file,       \* what the file at IntentClassifier.model_path holds
    constructed,      \* whether IntentClassifier.__init__ has run
    cret,             \* the last call on the IntentClassifier and its outcome
    route_ret,        \* the last direct _determine_route call and its result
    docs_id,          \* identity of the list object bound to RAGSystem.documents
    ipc,              \* index_documents running in one thread: where it is
    iarg,             \*   its documents_path argument
    idir,             \*   the directory as it finds it
    ifiles,           \*   the files its glob iterator has yet to yield
    ifile,            \*   the file it has just read
    rpc,              \* retrieve_context running in another thread: where it is
    rquery,           \*   its query argument
    rk,               \*   its k argument
    rid,              \*   identity of the list object it iterates over
    ri,               \*   the index its enumerate has reached
    rdoc,             \*   the document its iterator has just yielded
    rscored,          \*   its scored_docs list
    exit_codes,       \* setup.py: the exit status each shell command ends with
    setup_ret,        \* the last setup.py step called and what it returned
    app,              \* app.py: the three AI model attributes of the Flask app
    app_state,        \* whether create_app has run and returned the app
    cli_ret           \* the last CLI command run and what it echoed

ragVars == <<documents, metadata, ret>>

clsVars == <<intent_keywords, model_file, constructed, cret>>

indexerVars == <<ipc, iarg, idir, ifiles, ifile>>

readerVars == <<rpc, rquery, rk, rid, ri, rdoc, rscored>>

concVars == <<docs_id, ipc, iarg, idir, ifiles, ifile,
              rpc, rquery, rk, rid, ri, rdoc, rscored>>

setupVars == <<exit_codes, setup_ret>>

appVars == <<app, app_state, cli_ret>>

vars == <<documents, metadata, ret, intent_keywords, model_file, constructed,
          cret, route_ret, docs_id, ipc, iarg, idir, ifiles, ifile,
          rpc, rquery, rk, rid, ri, rdoc, rscored,
          exit_codes, setup_ret, app, app_state, cli_ret>>

----------------------------------------------------------------------------
(* Bounds *)

MaxFiles == 3         \* entries in a directory
MaxQueryLen == 2      \* tokens in a query
MaxK == 3             \* requested result count
MaxKeywords == 2      \* keywords of one intent in a persisted table
MaxTextLen == 2       \* characters in a text given to classify
MaxDen == 10          \* denominators of the confidences given to _determine_route
MaxConcFiles == 2     \* entries in the directory a concurrent re-index finds
MaxExit == 2          \* greatest exit status of a shell command

----------------------------------------------------------------------------
(* Small helpers *)

Min(a, b) == IF a <= b THEN a ELSE b

\* All sequences over S of length at most n.
SeqsUpTo(S, n) == UNION {[1..m -> S] : m \in 0..n}

\* All sequences over S of length at most n without repeated elements.
InjSeqsUpTo(S, n) == {s \in SeqsUpTo(S, n) : \A i, j \in 1..Len(s) : s[i] = s[j] => i = j}

----------------------------------------------------------------------------
(* The file system seen by RAGSystem *)

NoneArg == "None"

\* RAGSystem.documents_path, set by __init__ from its default argument.
DefaultDocumentsPath == "knowledge_base/technician_manuals"

OtherPath == "manuals2"

\* Directory entries: three readable text files, one text file whose read
\* raises (encoding or permission error), and one entry glob('*.txt') skips.
Entries == {"f1.txt", "f2.txt", "f3.txt", "bad.txt", "readme.md"}

IsTxt(e) == e \in {"f1.txt", "f2.txt", "f3.txt", "bad.txt"}

Readable(e) == e # "bad.txt"

\* f.read(): the file's text, as its token sequence.
FileContent(e) ==
    CASE e = "f1.txt" -> <<"A", "b">>
      [] e = "f2.txt" -> <<"a">>
      [] e = "f3.txt" -> <<"b", "a">>
      [] OTHER -> <<"x">>

\* A directory as found at call time: its state and its entries in the
\* order the file system enumerates them.
Directories ==
    {[status |-> "ok", entries |-> l] : l \in InjSeqsUpTo(Entries, MaxFiles)}
    \cup {[status |-> "missing", entries |-> <<>>],
          [status |-> "unreadable", entries |-> <<>>]}

\* str.lower() on a token.
Lower(w) ==
    CASE w = "A" -> "a"
      [] w = "B" -> "b"
      [] OTHER -> w

\* set(s.lower().split())
WordSet(s) == {Lower(s[i]) : i \in 1..Len(s)}

----------------------------------------------------------------------------
(* RAGSystem.index_documents *)

\* Path(path).glob('*.txt') on a readable directory.
RECURSIVE Glob(_)
Glob(l) ==
    IF l = <<>> THEN <<>>
    ELSE IF IsTxt(Head(l)) THEN <<Head(l)>> \o Glob(Tail(l))
    ELSE Glob(Tail(l))

MetaOf(path, e) == [filename |-> e, source |-> <<path, e>>]

\* An iteration that appends to documents before the read has succeeded:
\* a file whose read raises leaves a document without a metadata entry.
IndexFileAppendBeforeRead(idx, path, e) ==
    IF Readable(e)
    THEN [docs |-> Append(idx.docs, FileContent(e)),
          meta |-> Append(idx.meta, MetaOf(path, e))]
    ELSE [docs |-> Append(idx.docs, <<>>), meta |-> idx.meta]

\* One iteration of the for loop: a file whose read raises adds nothing.
IndexFile(idx, path, e) ==
    IF Readable(e)
    THEN [docs |-> Append(idx.docs, FileContent(e)),
          meta |-> Append(idx.meta, MetaOf(path, e))]
    ELSE idx

RECURSIVE IndexLoop(_, _, _)
IndexLoop(idx, path, files) ==
    IF files = <<>> THEN idx
    ELSE IndexLoop(IndexFile(idx, path, Head(files)), path, Tail(files))

EmptyIndex == [docs |-> <<>>, meta |-> <<>>]

\* path = documents_path or self.documents_path
EffectivePath(arg) == IF arg = NoneArg THEN DefaultDocumentsPath ELSE arg

\* The lists index_documents leaves behind.  Both lists are rebound to
\* empty lists before the directory is touched, so a directory that cannot
\* be listed leaves them empty.
IndexResult(arg, dir) ==
    IF dir.status = "ok"
    THEN IndexLoop(EmptyIndex, EffectivePath(arg), Glob(dir.entries))
    ELSE EmptyIndex

\* index_documents(arg) with the directory in state dir.  On a directory
\* that is missing or unreadable glob either yields nothing (return True)
\* or raises into the outer except (return False).
IndexDocuments(arg, dir, raises) ==
    /\ raises => dir.status # "ok"
    /\ documents' = IndexResult(arg, dir).docs
    /\ metadata' = IndexResult(arg, dir).meta
    /\ ret' = [op |-> "index_documents", arg |-> arg, dir |-> dir,
               value |-> ~raises]

----------------------------------------------------------------------------
(* RAGSystem.retrieve_context *)

\* similarity_score = overlap / len(union), kept as a fraction.
Score(qw, dw) ==
    [num |-> Cardinality(qw \cap dw), den |-> Cardinality(qw \cup dw)]

ScoreGT(a, b) == a.num * b.den > b.num * a.den

ScoreEQ(a, b) == a.num * b.den = b.num * a.den

\* overlap > 0 for this document
Overlaps(qw, doc) == Cardinality(qw \cap WordSet(doc)) > 0

\* scored_docs.append({...}) for a document and its metadata entry m.
AppendScored(scored, doc, m, qw) ==
    Append(scored, [text |-> doc,
                    metadata |-> m,
                    similarity_score |-> Score(qw, WordSet(doc)),
                    rank |-> Len(scored) + 1])

\* The scoring loop over enumerate(self.documents), from position i on.
RECURSIVE ScoreLoop(_, _, _, _, _)
ScoreLoop(docs, meta, qw, i, scored) ==
    IF i > Len(docs) THEN scored
    ELSE IF Overlaps(qw, docs[i])
         THEN ScoreLoop(docs, meta, qw, i + 1,
                        AppendScored(scored, docs[i], meta[i], qw))
         ELSE ScoreLoop(docs, meta, qw, i + 1, scored)

\* A sort that is not stable: x goes before the elements of equal score.
RECURSIVE InsertPosBeforeTies(_, _, _)
InsertPosBeforeTies(s, x, i) ==
    IF i > Len(s) THEN i
    ELSE IF ~ScoreGT(s[i].similarity_score, x.similarity_score) THEN i
    ELSE InsertPosBeforeTies(s, x, i + 1)

\* Position at which x goes into the descending list s: after every element
\* whose score is greater than or equal to x's.
RECURSIVE InsertPos(_, _, _)
InsertPos(s, x, i) ==
    IF i > Len(s) THEN i
    ELSE IF ScoreGT(x.similarity_score, s[i].similarity_score) THEN i
    ELSE InsertPos(s, x, i + 1)

InsertAt(s, x, p) == SubSeq(s, 1, p - 1) \o <<x>> \o SubSeq(s, p, Len(s))

\* list.sort(key=similarity_score, reverse=True): a stable descending sort.
RECURSIVE SortDesc(_, _)
SortDesc(sorted, rest) ==
    IF rest = <<>> THEN sorted
    ELSE SortDesc(InsertAt(sorted, Head(rest), InsertPos(sorted, Head(rest), 1)),
                  Tail(rest))

\* A slice that is one too long.
TopKOffByOne(s, k) == SubSeq(s, 1, Min(k + 1, Len(s)))

\* scored_docs[:k] for k >= 0
TopK(s, k) == SubSeq(s, 1, Min(k, Len(s)))

RetrieveValue(docs, meta, query, k) ==
    IF docs = <<>> THEN <<>>
    ELSE TopK(SortDesc(<<>>, ScoreLoop(docs, meta, WordSet(query), 1, <<>>)), k)

\* What a retrieve_context call leaves: its return value, or raised = TRUE
\* when an exception left it.
Returned(query, k, value) ==
    [op |-> "retrieve_context", query |-> query, k |-> k,
     value |-> value, raised |-> FALSE]

Raised(query, k) ==
    [op |-> "retrieve_context", query |-> query, k |-> k,
     value |-> <<>>, raised |-> TRUE]

\* retrieve_context(query, k) run from start to end with no other thread
\* in between; the two lists have equal lengths then and metadata[i] exists.
RetrieveContext(query, k) ==
    /\ ret' = Returned(query, k, RetrieveValue(documents, metadata, query, k))
    /\ UNCHANGED <<documents, metadata>>

----------------------------------------------------------------------------
(* IntentClassifier: the intent table and its file *)

\* An intent table is the dict in insertion order: a sequence of
\* [intent, keywords] with distinct intents.

\* create_default_model's table: the intents in insertion order, each keyword
\* spelled as its sequence of characters.
DefaultTable ==
    <<
      [intent |-> "greeting",
       keywords |-> <<
            <<"h", "e", "l", "l", "o">>,
            <<"h", "i">>,
            <<"h", "e", "y">>,
            <<"g", "r", "e", "e", "t", "i", "n", "g", "s">>,
            <<"g", "o", "o", "d", " ", "m", "o", "r", "n", "i", "n", "g">>,
            <<"g", "o", "o", "d", " ", "a", "f", "t", "e", "r", "n", "o", "o", "n">>>>],
      [intent |-> "goodbye",
       keywords |-> <<
            <<"b", "y", "e">>,
            <<"g", "o", "o", "d", "b", "y", "e">>,
            <<"f", "a", "r", "e", "w", "e", "l", "l">>,
            <<"s", "e", "e", " ", "y", "o", "u">>,
            <<"e", "x", "i", "t">>,
            <<"q", "u", "i", "t">>>>],
      [intent |-> "help",
       keywords |-> <<
            <<"h", "e", "l", "p">>,
            <<"a", "s", "s", "i", "s", "t">>,
            <<"w", "h", "a", "t", " ", "c", "a", "n", " ", "y", "o", "u", " ", "d", "o">>,
            <<"c", "a", "p", "a", "b", "i", "l", "i", "t", "i", "e", "s">>,
            <<"g", "u", "i", "d", "e">>>>],
      [intent |-> "simple_troubleshooting",
       keywords |-> <<
            <<"m", "o", "t", "o", "r">>,
            <<"p", "u", "m", "p">>,
            <<"n", "o", "t", " ", "w", "o", "r", "k", "i", "n", "g">>,
            <<"s", "t", "o", "p", "p", "e", "d">>,
            <<"p", "r", "o", "b", "l", "e", "m">>,
            <<"i", "s", "s", "u", "e">>,
            <<"b", "r", "o", "k", "e", "n">>,
            <<"r", "e", "p", "a", "i", "r">>,
            <<"f", "i", "x">>>>],
      [intent |-> "safety_query",
       keywords |-> <<
            <<"s", "a", "f", "e", "t", "y">>,
            <<"l", "o", "c", "k", "o", "u", "t">>,
            <<"t", "a", "g", "o", "u", "t">>,
            <<"l", "o", "t", "o">>,
            <<"p", "p", "e">>,
            <<"h", "a", "z", "a", "r", "d">>,
            <<"e", "m", "e", "r", "g", "e", "n", "c", "y">>>>],
      [intent |-> "maintenance_planning",
       keywords |-> <<
            <<"m", "a", "i", "n", "t", "e", "n", "a", "n", "c", "e">>,
            <<"s", "c", "h", "e", "d", "u", "l", "e">>,
            <<"s", "e", "r", "v", "i", "c", "e">>,
            <<"i", "n", "s", "p", "e", "c", "t", "i", "o", "n">>,
            <<"r", "o", "u", "t", "i", "n", "e">>>>],
      [intent |-> "equipment_specific",
       keywords |-> <<
            <<"h", "v", "a", "c">>,
            <<"c", "o", "m", "p", "r", "e", "s", "s", "o", "r">>,
            <<"v", "a", "l", "v", "e">>,
            <<"s", "e", "n", "s", "o", "r">>,
            <<"e", "l", "e", "c", "t", "r", "i", "c", "a", "l">>,
            <<"m", "e", "c", "h", "a", "n", "i", "c", "a", "l">>>>],
      [intent |-> "technical_explanation",
       keywords |-> <<
            <<"h", "o", "w", " ", "d", "o", "e", "s">>,
            <<"e", "x", "p", "l", "a", "i", "n">>,
            <<"w", "h", "y">>,
            <<"w", "h", "a", "t", " ", "c", "a", "u", "s", "e", "s">>,
            <<"p", "r", "i", "n", "c", "i", "p", "l", "e">>,
            <<"t", "h", "e", "o", "r", "y">>>>],
      [intent |-> "unclear",
       keywords |-> <<
            <<"u", "n", "c", "l", "e", "a", "r">>,
            <<"d", "o", "n", "'", "t", " ", "k", "n", "o", "w">>,
            <<"n", "o", "t", " ", "s", "u", "r", "e">>,
            <<"c", "o", "n", "f", "u", "s", "i", "n", "g">>,
            <<"h", "u", "h">>>>]
    >>

\* The file at model_path: whether os.path.exists finds it, and its text.
Missing == [exists |-> FALSE, text |-> <<>>]

FileWith(toks) == [exists |-> TRUE, text |-> toks]

\* The JSON text json.dump writes, as its tokens.
Tok(t, v) == [t |-> t, v |-> v]

RECURSIVE EncodeList(_)
EncodeList(kws) ==
    IF kws = <<>> THEN <<>>
    ELSE <<Tok("str", Head(kws))>> \o EncodeList(Tail(kws))

RECURSIVE EncodeEntries(_)
EncodeEntries(table) ==
    IF table = <<>> THEN <<>>
    ELSE <<Tok("str", Head(table).intent), Tok("[", <<>>)>>
         \o EncodeList(Head(table).keywords)
         \o <<Tok("]", <<>>)>>
         \o EncodeEntries(Tail(table))

\* json.dump with sort_keys=True: the entries come out in key order
\* ("equipment_specific" before "greeting").
EncodeSortedKeys(table) ==
    LET first == SelectSeq(table, LAMBDA e : e.intent = "equipment_specific")
        rest == SelectSeq(table, LAMBDA e : e.intent # "equipment_specific")
    IN <<Tok("{", <<>>)>> \o EncodeEntries(first \o rest) \o <<Tok("}", <<>>)>>

\* json.dump(self.intent_keywords, f, indent=2)
Encode(table) ==
    <<Tok("{", <<>>)>> \o EncodeEntries(table) \o <<Tok("}", <<>>)>>

ParseError == [ok |-> FALSE, table |-> <<>>]

\* dict assignment while parsing: a repeated key keeps its place and takes
\* the later value.
PutEntry(table, intent, kws) ==
    IF \E i \in 1..Len(table) : table[i].intent = intent
    THEN [i \in 1..Len(table) |->
            IF table[i].intent = intent
            THEN [intent |-> intent, keywords |-> kws]
            ELSE table[i]]
    ELSE Append(table, [intent |-> intent, keywords |-> kws])

\* The JSON array starting after "[" at position i.
RECURSIVE ParseList(_, _, _)
ParseList(toks, i, acc) ==
    IF i > Len(toks) THEN [ok |-> FALSE, kws |-> acc, next |-> i]
    ELSE IF toks[i].t = "]" THEN [ok |-> TRUE, kws |-> acc, next |-> i + 1]
    ELSE IF toks[i].t = "str" THEN ParseList(toks, i + 1, Append(acc, toks[i].v))
    ELSE [ok |-> FALSE, kws |-> acc, next |-> i]

\* The members of the JSON object from position i on, up to the final "}".
RECURSIVE ParseEntries(_, _, _)
ParseEntries(toks, i, acc) ==
    IF i > Len(toks) THEN ParseError
    ELSE IF toks[i].t = "}"
         THEN IF i = Len(toks) THEN [ok |-> TRUE, table |-> acc] ELSE ParseError
    ELSE IF toks[i].t = "str" /\ i + 1 <= Len(toks) /\ toks[i + 1].t = "["
         THEN LET l == ParseList(toks, i + 2, <<>>)
              IN IF l.ok
                 THEN ParseEntries(toks, l.next, PutEntry(acc, toks[i].v, l.kws))
                 ELSE ParseError
    ELSE ParseError

\* json.load(f): the table, or ok = FALSE where it raises.
Decode(toks) ==
    IF toks = <<>> THEN ParseError
    ELSE IF toks[1].t # "{" THEN ParseError
    ELSE ParseEntries(toks, 2, <<>>)

\* How the write in save_model ends: "written"; "not_opened", when makedirs
\* or open raises (os.makedirs('') for a model_path with no directory part,
\* a directory that cannot be written); "truncated", when open has emptied
\* the file and the dump raises.  The exception is caught and logged in the
\* last two cases.
WriteOutcomes == {"written", "not_opened", "truncated"}

\* The file after save_model.
SaveFile(table, file, outcome) ==
    CASE outcome = "written" -> FileWith(Encode(table))
      [] outcome = "not_opened" -> file
      [] OTHER -> FileWith(<<>>)

SaveLog(outcome) ==
    IF outcome = "written" THEN "Model saved" ELSE "Error saving model"

\* create_default_model
CreateDefault(file, outcome, log) ==
    [table |-> DefaultTable,
     file |-> SaveFile(DefaultTable, file, outcome),
     log |-> Append(log, SaveLog(outcome))]

\* load_or_create_model: the table, the file and the log lines it leaves.
LoadOrCreate(file, outcome) ==
    IF file.exists
    THEN IF Decode(file.text).ok
         THEN [table |-> Decode(file.text).table, file |-> file,
               log |-> <<"Simple intent classifier loaded">>]
         ELSE CreateDefault(file, outcome, <<"Error loading model">>)
    ELSE CreateDefault(file, outcome, <<>>)

----------------------------------------------------------------------------
(* IntentClassifier.classify and _determine_route *)

Frac(n, d) == [num |-> n, den |-> d]

FracGT(a, b) == a.num * b.den > b.num * a.den

FracLT(a, b) == a.num * b.den < b.num * a.den

FracEQ(a, b) == a.num * b.den = b.num * a.den

Half == Frac(1, 2)

LowThreshold == Frac(3, 10)

HighThreshold == Frac(7, 10)

SimpleIntents ==
    {"greeting", "goodbye", "help", "simple_troubleshooting", "safety_query"}

\* A route that takes the upper threshold as reached at 0.7.
DetermineRouteInclusive(intent, confidence, text) ==
    IF intent \in SimpleIntents /\ FracGT(confidence, Half) THEN "rule_based"
    ELSE IF FracLT(confidence, LowThreshold) THEN "rule_based"
    ELSE IF ~FracLT(confidence, HighThreshold) THEN "llm"
    ELSE "rule_based"

\* _determine_route(intent, confidence, text)
DetermineRoute(intent, confidence, text) ==
    IF intent \in SimpleIntents /\ FracGT(confidence, Half) THEN "rule_based"
    ELSE IF FracLT(confidence, LowThreshold) THEN "rule_based"
    ELSE IF FracGT(confidence, HighThreshold) THEN "llm"
    ELSE "rule_based"

\* text.lower()
LowerStr(text) == [i \in 1..Len(text) |-> Lower(text[i])]

\* The test with its operands swapped: text in keyword.
IsSubstringSwapped(kw, text) ==
    \E i \in 0..(Len(kw) - Len(text)) : SubSeq(kw, i + 1, i + Len(text)) = text

\* keyword in text_lower
IsSubstring(kw, text) ==
    \E i \in 0..(Len(text) - Len(kw)) : SubSeq(text, i + 1, i + Len(kw)) = kw

\* The inner loop: the number of list elements found in the text; each adds
\* 1.0 / len(keywords) to the intent's score.
RECURSIVE MatchCount(_, _)
MatchCount(kws, text) ==
    IF kws = <<>> THEN 0
    ELSE (IF IsSubstring(Head(kws), text) THEN 1 ELSE 0) + MatchCount(Tail(kws), text)

\* scores after the outer loop: the intents that scored, in the order
\* they were first added to the defaultdict, each with its score.
RECURSIVE Scores(_, _)
Scores(table, text) ==
    IF table = <<>> THEN <<>>
    ELSE LET e == Head(table)
             m == MatchCount(e.keywords, text)
         IN (IF m > 0
             THEN <<[intent |-> e.intent, score |-> Frac(m, Len(e.keywords))]>>
             ELSE <<>>)
            \o Scores(Tail(table), text)

\* A max that keeps the last of the greatest elements.
RECURSIVE BestIndexLast(_, _, _)
BestIndexLast(scores, i, best) ==
    IF i > Len(scores) THEN best
    ELSE IF ~FracLT(scores[i].score, scores[best].score)
         THEN BestIndexLast(scores, i + 1, i)
         ELSE BestIndexLast(scores, i + 1, best)

\* max(scores, key=scores.get): the first of the greatest elements.
RECURSIVE BestIndex(_, _, _)
BestIndex(scores, i, best) ==
    IF i > Len(scores) THEN best
    ELSE IF FracGT(scores[i].score, scores[best].score)
         THEN BestIndex(scores, i + 1, i)
         ELSE BestIndex(scores, i + 1, best)

One == Frac(1, 1)

\* min(score, 1.0)
MinOne(score) == IF FracLT(score, One) THEN score ELSE One

\* classify(text)
Classify(table, text) ==
    LET text_lower == LowerStr(text)
        scores == Scores(table, text_lower)
    IN IF scores = <<>>
       THEN [intent |-> "unclear", confidence |-> Frac(1, 10), route |-> "rule_based"]
       ELSE LET best == scores[BestIndex(scores, 1, 1)]
                confidence == MinOne(best.score)
            IN [intent |-> best.intent,
                confidence |-> confidence,
                route |-> DetermineRoute(best.intent, confidence, text_lower)]

----------------------------------------------------------------------------
(* setup.py: run_command, setup_virtual_environment, install_requirements *)

VenvCommand == "python -m venv venv"

\* strategies: the commands of install_requirements, in the listed order.
Strategies ==
    << "venv\\Scripts\\pip install -r requirements.txt",
       "venv\\Scripts\\pip install -r requirements_safe.txt",
       "venv\\Scripts\\pip install --only-binary=all -r requirements_safe.txt",
       "venv\\Scripts\\pip install Flask python-dotenv pymongo requests" >>

Commands == {VenvCommand} \cup {Strategies[i] : i \in 1..Len(Strategies)}

\* The exit status of each command, as the machine setup.py runs on decides.
ExitCodes == [Commands -> 0..MaxExit]

\* run_command(command, description, required): subprocess.run(check=True)
\* raises CalledProcessError on a non-zero exit status; the handler returns
\* False when required and True ("non-critical") otherwise.
RunCommand(command, required, codes) ==
    IF codes[command] = 0
    THEN [success |-> TRUE, returncode |-> 0, printed |-> "Success"]
    ELSE IF required
         THEN [success |-> FALSE, returncode |-> codes[command],
               printed |-> "Error"]
         ELSE [success |-> TRUE, returncode |-> codes[command],
               printed |-> "Warning"]

\* What one run_command call leaves in the record of a step.
Attempt(command, r) ==
    [command |-> command, returncode |-> r.returncode, success |-> r.success]

\* setup_virtual_environment()
SetupVirtualEnvironment(exists, codes) ==
    IF exists
    THEN [value |-> TRUE, attempts |-> <<>>]
    ELSE LET r == RunCommand(VenvCommand, TRUE, codes)
         IN [value |-> r.success, attempts |-> <<Attempt(VenvCommand, r)>>]

\* The for loop of install_requirements from strategy i on.
RECURSIVE InstallLoop(_, _, _)
InstallLoop(i, attempts, codes) ==
    IF i > Len(Strategies)
    THEN [value |-> FALSE, attempts |-> attempts]
    ELSE LET r == RunCommand(Strategies[i], FALSE, codes)
             tried == Append(attempts, Attempt(Strategies[i], r))
         IN IF r.success
            THEN [value |-> TRUE, attempts |-> tried]
            ELSE InstallLoop(i + 1, tried, codes)

\* install_requirements()
InstallRequirements(codes) == InstallLoop(1, <<>>, codes)

----------------------------------------------------------------------------
(* app.py: the AI model attributes set by create_app, and the CLI commands *)

\* The attributes in the order the try block assigns them.
AiAttributes == <<"intent_classifier", "rule_based_bot", "rag_system">>

\* An attribute is not yet assigned, None, or an instance of its class.
NoApp == [a \in {AiAttributes[i] : i \in 1..Len(AiAttributes)} |-> "unset"]

\* Where the try block raises: nowhere, in one of its imports, or in the
\* constructor whose result the named attribute is to take.
FailPoints == {"none", "import"} \cup {AiAttributes[i] : i \in 1..Len(AiAttributes)}

\* The three assignments of the try block from the i-th on; each constructor
\* runs, and its result is assigned, only if the ones before it returned.
RECURSIVE TryBlock(_, _, _)
TryBlock(a, i, fail_at) ==
    IF i > Len(AiAttributes) THEN [app |-> a, raised |-> FALSE]
    ELSE IF AiAttributes[i] = fail_at THEN [app |-> a, raised |-> TRUE]
    ELSE TryBlock([a EXCEPT ![AiAttributes[i]] = "object"], i + 1, fail_at)

\* A handler that sets to None only what the try block had not assigned.
ExceptBlockKeepsAssigned(a) ==
    [x \in DOMAIN a |-> IF a[x] = "unset" THEN "None" ELSE a[x]]

\* except Exception: all three attributes are set to None.
ExceptBlock(a) == [x \in DOMAIN a |-> "None"]

\* The "Initialize AI models" block of create_app.
InitAiModels(a, fail_at) ==
    IF fail_at = "import" THEN ExceptBlock(a)
    ELSE IF TryBlock(a, 1, fail_at).raised
         THEN ExceptBlock(TryBlock(a, 1, fail_at).app)
         ELSE TryBlock(a, 1, fail_at).app

\* Whether the constructor of attribute x ran to its end in the try block.
Constructs(x, fail_at) ==
    /\ fail_at # "import"
    /\ TryBlock(NoApp, 1, fail_at).app[x] = "object"

\* Where a statement of create_app outside the AI block raises: nowhere,
\* before the block (logging setup, makedirs, login manager) or after it
\* (blueprint imports and registration).
OtherFailures == {"none", "before", "after"}

\* if app.intent_classifier: / if app.rag_system: None is false, an instance
\* of a class with neither __bool__ nor __len__ is true.
Truthy(v) == v = "object"

\* A method call on the attribute inside the command's try: on None it
\* raises AttributeError, which the except turns into an error line.
MethodCall(v, done, failed) ==
    IF v = "object" THEN [echo |-> done, called_on |-> v]
    ELSE [echo |-> failed, called_on |-> v]

\* The body of a command: the method is called only on a true attribute.
CommandEcho(v, done, unavailable, failed) ==
    IF Truthy(v) THEN MethodCall(v, done, failed)
    ELSE [echo |-> unavailable, called_on |-> "nothing"]

\* train-models
TrainModelsCommand(a) ==
    CommandEcho(a.intent_classifier, "Models trained successfully!",
                "Intent classifier not available", "Error training models")

\* index-documents
IndexDocumentsCommand(a) ==
    CommandEcho(a.rag_system, "Documents indexed successfully!",
                "RAG system not available", "Error indexing documents")

----------------------------------------------------------------------------
(* States in which a part of the program is not in use *)

NoCall == [op |-> "none"]

RagIdle == documents = <<>> /\ metadata = <<>> /\ ret = NoCall

ClsIdle ==
    /\ intent_keywords = <<>>
    /\ model_file = Missing
    /\ constructed = FALSE
    /\ cret = NoCall

RouteIdle == route_ret = NoCall

\* setup.py has run no command; every command would exit with status 0.
SetupIdle == exit_codes = [c \in Commands |-> 0] /\ setup_ret = NoCall

\* app.py: create_app has not been called.
NotCreated == [status |-> "not_created", ai_raised_at |-> "none",
               other_raised |-> "none"]

AppIdle == app = NoApp /\ app_state = NotCreated /\ cli_ret = NoCall

ConcIdle ==
    /\ docs_id = 0
    /\ ipc = "idle" /\ iarg = NoneArg /\ idir = [status |-> "ok", entries |-> <<>>]
    /\ ifiles = <<>> /\ ifile = ""
    /\ rpc = "idle" /\ rquery = <<>> /\ rk = 0 /\ rid = 0 /\ ri = 0
    /\ rdoc = <<>> /\ rscored = <<>>

----------------------------------------------------------------------------
(* Sequential use of one RAGSystem *)

QueryTokens == {"a", "B", "c"}

Queries == SeqsUpTo(QueryTokens, MaxQueryLen)

PathArgs == {NoneArg, OtherPath}

\* The queries given to retrieve_context while a re-index runs.
ConcQueries == {<<"a">>, <<"B">>, <<"c">>}

\* After __init__: the index of whatever the documents directory holds, or
\* an empty index when _initialize_system failed before indexing.
RagInit ==
    /\ \E dir \in Directories :
          /\ documents = IndexResult(NoneArg, dir).docs
          /\ metadata = IndexResult(NoneArg, dir).meta
    /\ ret = NoCall

Init == RagInit /\ ClsIdle /\ RouteIdle /\ ConcIdle /\ SetupIdle /\ AppIdle

CallIndexDocuments ==
    /\ \E arg \in PathArgs, dir \in Directories :
          \E raises \in (IF dir.status = "ok" THEN {FALSE} ELSE BOOLEAN) :
              IndexDocuments(arg, dir, raises)
    /\ UNCHANGED <<setupVars, appVars, clsVars, route_ret, concVars>>

CallRetrieveContext ==
    /\ \E query \in Queries, k \in 0..MaxK : RetrieveContext(query, k)
    /\ UNCHANGED <<setupVars, appVars, clsVars, route_ret, concVars>>

Next == CallIndexDocuments \/ CallRetrieveContext

Spec == Init /\ [][Next]_vars

----------------------------------------------------------------------------
(* One IntentClassifier: construction, then calls in any order *)

Keywords == {<<>>, <<"a">>, <<"b">>}

\* Keyword lists name each keyword once, as the lists of the default table do.
KeywordLists == InjSeqsUpTo(Keywords, MaxKeywords)

TableIntents == {"greeting", "equipment_specific"}

\* The tables a persisted file may hold: the intents in either order, each
\* with any keyword list; and the default table.
Tables ==
    {DefaultTable} \cup
    UNION {{[i \in 1..Len(order) |-> [intent |-> order[i], keywords |-> f[i]]] :
               f \in [1..Len(order) -> KeywordLists]} :
           order \in InjSeqsUpTo(TableIntents, 2)}

\* File contents json.load raises on: an empty file, a text cut short.
CorruptFiles == {<<>>, <<Tok("{", <<>>)>>}

FileStates ==
    {Missing} \cup {FileWith(c) : c \in CorruptFiles}
    \cup {FileWith(Encode(t)) : t \in Tables}

TextChars == {"a", "B"}

SampleTexts == {<<"h", "i">>, <<"w", "h", "y", " ", "h", "v", "a", "c">>}

Texts == SeqsUpTo(TextChars, MaxTextLen) \cup SampleTexts

\* Before __init__: the attribute is {} and the file is whatever is on disk.
ClsInit ==
    /\ intent_keywords = <<>>
    /\ model_file \in FileStates
    /\ constructed = FALSE
    /\ cret = NoCall

\* The call before this one was a save_model that wrote the file.
JustSaved == cret.op = "save_model" /\ cret.log = <<"Model saved">>

\* One run of load_or_create_model.  The record of the call keeps, beside
\* the log lines, whether it directly followed a successful save_model.
LoadStep(op, outcome) ==
    LET r == LoadOrCreate(model_file, outcome)
    IN /\ (r.log = <<"Simple intent classifier loaded">>) => outcome = "written"
       /\ intent_keywords' = r.table
       /\ model_file' = r.file
       /\ cret' = [op |-> op, log |-> r.log, after_save |-> JustSaved]

\* IntentClassifier(): __init__ sets the empty table and loads.
Construct ==
    /\ ~constructed
    /\ constructed' = TRUE
    /\ \E outcome \in WriteOutcomes : LoadStep("__init__", outcome)
    /\ UNCHANGED <<setupVars, appVars, ragVars, route_ret, concVars>>

CallLoadOrCreateModel ==
    /\ constructed
    /\ \E outcome \in WriteOutcomes : LoadStep("load_or_create_model", outcome)
    /\ UNCHANGED <<setupVars, appVars, constructed, ragVars, route_ret, concVars>>

CallSaveModel ==
    /\ constructed
    /\ \E outcome \in WriteOutcomes :
          /\ model_file' = SaveFile(intent_keywords, model_file, outcome)
          /\ cret' = [op |-> "save_model", log |-> <<SaveLog(outcome)>>]
    /\ UNCHANGED <<setupVars, appVars, intent_keywords, constructed, ragVars, route_ret, concVars>>

CallClassify ==
    /\ constructed
    /\ \E text \in Texts :
          cret' = [op |-> "classify", text |-> text,
                   value |-> Classify(intent_keywords, text)]
    /\ UNCHANGED <<setupVars, appVars, intent_keywords, model_file, constructed, ragVars, route_ret,
                   concVars>>

ClsNext == Construct \/ CallLoadOrCreateModel \/ CallSaveModel \/ CallClassify

InitCls == RagIdle /\ ClsInit /\ RouteIdle /\ ConcIdle /\ SetupIdle /\ AppIdle

SpecCls == InitCls /\ [][ClsNext]_vars

----------------------------------------------------------------------------
(* _determine_route called directly on any intent and confidence *)

RouteIntents == {DefaultTable[i].intent : i \in 1..Len(DefaultTable)} \cup {"other"}

\* The confidences n/d in [0, 1] with d up to MaxDen.
Confidences ==
    UNION {{Frac(n, d) : n \in 0..d} : d \in 1..MaxDen}

RouteTexts == {<<>>, <<"a">>, <<"h", "i">>}

CallDetermineRoute ==
    /\ \E intent \in RouteIntents, confidence \in Confidences, text \in RouteTexts :
          route_ret' = [op |-> "_determine_route", intent |-> intent,
                        confidence |-> confidence, text |-> text,
                        value |-> DetermineRoute(intent, confidence, text)]
    /\ UNCHANGED <<setupVars, appVars, ragVars, clsVars, concVars>>

RouteNext == CallDetermineRoute

InitRoute == RagIdle /\ ClsIdle /\ RouteIdle /\ ConcIdle /\ SetupIdle /\ AppIdle

SpecRoute == InitRoute /\ [][RouteNext]_vars

----------------------------------------------------------------------------
(* One index_documents call running while retrieve_context calls run in     *)
(* another thread.  Each action is one read or write of the shared          *)
(* attributes self.documents and self.metadata, or of a list they are bound *)
(* to; the interpreter may switch threads between any two of them.          *)

\* The directory __init__ indexes: the sample documents it has just written.
SampleDirectory == [status |-> "ok", entries |-> <<"f1.txt", "f2.txt">>]

\* The index after __init__.
InitialIndex == IndexResult(NoneArg, SampleDirectory)

\* The directories the re-index call may find.
ConcDirectories ==
    {d \in Directories : Len(d.entries) <= MaxConcFiles}

InitConc ==
    /\ documents = InitialIndex.docs
    /\ metadata = InitialIndex.meta
    /\ ret = NoCall
    /\ ClsIdle /\ RouteIdle /\ ConcIdle /\ SetupIdle /\ AppIdle

\* index_documents(arg) is called: path = documents_path or self.documents_path
IStart ==
    /\ ipc = "idle"
    /\ \E arg \in PathArgs, dir \in ConcDirectories :
          /\ iarg' = arg
          /\ idir' = dir
    /\ ipc' = "clear_docs"
    /\ UNCHANGED <<setupVars, appVars, ragVars, clsVars, route_ret, docs_id, ifiles, ifile, readerVars>>

\* self.documents = []: the attribute is bound to a new, empty list; the
\* old list object stays as it is for whoever still holds it.
IClearDocs ==
    /\ ipc = "clear_docs"
    /\ documents' = <<>>
    /\ docs_id' = docs_id + 1
    /\ ipc' = "clear_meta"
    /\ UNCHANGED <<setupVars, appVars, metadata, ret, clsVars, route_ret, iarg, idir, ifiles, ifile,
                   readerVars>>

\* self.metadata = []
IClearMeta ==
    /\ ipc = "clear_meta"
    /\ metadata' = <<>>
    /\ ipc' = "glob"
    /\ UNCHANGED <<setupVars, appVars, documents, ret, clsVars, route_ret, docs_id, iarg, idir, ifiles,
                   ifile, readerVars>>

\* Path(path).glob('*.txt'): a directory that cannot be listed ends the
\* call here, by an empty iteration or by the outer except.
IGlob ==
    /\ ipc = "glob"
    /\ IF idir.status = "ok"
       THEN ifiles' = Glob(idir.entries) /\ ipc' = "loop"
       ELSE ifiles' = <<>> /\ ipc' = "returned"
    /\ UNCHANGED <<setupVars, appVars, ragVars, clsVars, route_ret, docs_id, iarg, idir, ifile, readerVars>>

\* The for loop takes the next file and reads it; a read that raises is
\* logged and the loop goes on; after the last file the call returns.
ILoop ==
    /\ ipc = "loop"
    /\ IF ifiles = <<>>
       THEN ipc' = "returned" /\ UNCHANGED <<ifiles, ifile>>
       ELSE /\ ifiles' = Tail(ifiles)
            /\ IF Readable(Head(ifiles))
               THEN ifile' = Head(ifiles) /\ ipc' = "append_doc"
               ELSE ifile' = ifile /\ ipc' = "loop"
    /\ UNCHANGED <<setupVars, appVars, ragVars, clsVars, route_ret, docs_id, iarg, idir, readerVars>>

\* self.documents.append(content)
IAppendDoc ==
    /\ ipc = "append_doc"
    /\ documents' = Append(documents, FileContent(ifile))
    /\ ipc' = "append_meta"
    /\ UNCHANGED <<setupVars, appVars, metadata, ret, clsVars, route_ret, docs_id, iarg, idir, ifiles,
                   ifile, readerVars>>

\* self.metadata.append({...})
IAppendMeta ==
    /\ ipc = "append_meta"
    /\ metadata' = Append(metadata, MetaOf(EffectivePath(iarg), ifile))
    /\ ipc' = "loop"
    /\ UNCHANGED <<setupVars, appVars, documents, ret, clsVars, route_ret, docs_id, iarg, idir, ifiles,
                   ifile, readerVars>>

\* retrieve_context(query, k) is called.
RStart ==
    /\ rpc \in {"idle", "done"}
    /\ \E query \in ConcQueries, k \in 1..MaxK :
          /\ rquery' = query
          /\ rk' = k
    /\ rpc' = "check"
    /\ UNCHANGED <<setupVars, appVars, ragVars, clsVars, route_ret, docs_id, indexerVars, rid, ri, rdoc,
                   rscored>>

\* if not self.documents: return []
RCheck ==
    /\ rpc = "check"
    /\ IF documents = <<>>
       THEN ret' = Returned(rquery, rk, <<>>) /\ rpc' = "done"
       ELSE ret' = ret /\ rpc' = "enumerate"
    /\ UNCHANGED <<setupVars, appVars, documents, metadata, clsVars, route_ret, docs_id, indexerVars,
                   rquery, rk, rid, ri, rdoc, rscored>>

\* scored_docs = []; enumerate(self.documents) takes the list the attribute
\* is bound to now.
REnumerate ==
    /\ rpc = "enumerate"
    /\ rid' = docs_id
    /\ ri' = 0
    /\ rscored' = <<>>
    /\ rpc' = "next"
    /\ UNCHANGED <<setupVars, appVars, ragVars, clsVars, route_ret, docs_id, indexerVars, rquery, rk, rdoc>>

\* The list the reader iterates over: the one self.documents is bound to,
\* or the list of the initial index when the attribute has been rebound.
HeldList == IF rid = docs_id THEN documents ELSE InitialIndex.docs

\* The list iterator yields the next element, or ends the loop.
RNext ==
    /\ rpc = "next"
    /\ IF ri < Len(HeldList)
       THEN rdoc' = HeldList[ri + 1] /\ rpc' = "score"
       ELSE rdoc' = rdoc /\ rpc' = "sort"
    /\ UNCHANGED <<setupVars, appVars, ragVars, clsVars, route_ret, docs_id, indexerVars, rquery, rk, rid,
                   ri, rscored>>

\* The loop body: a document that overlaps the query is appended with
\* self.metadata[i], which raises IndexError when the list bound to
\* self.metadata has no element i.
RScore ==
    /\ rpc = "score"
    /\ IF Overlaps(WordSet(rquery), rdoc)
       THEN IF ri + 1 <= Len(metadata)
            THEN /\ rscored' = AppendScored(rscored, rdoc, metadata[ri + 1],
                                            WordSet(rquery))
                 /\ ri' = ri + 1
                 /\ rpc' = "next"
                 /\ ret' = ret
            ELSE /\ ret' = Raised(rquery, rk)
                 /\ rpc' = "done"
                 /\ UNCHANGED <<ri, rscored>>
       ELSE /\ ri' = ri + 1
            /\ rpc' = "next"
            /\ UNCHANGED <<ret, rscored>>
    /\ UNCHANGED <<setupVars, appVars, documents, metadata, clsVars, route_ret, docs_id, indexerVars,
                   rquery, rk, rid, rdoc>>

\* scored_docs.sort(...); return scored_docs[:k]
RSort ==
    /\ rpc = "sort"
    /\ ret' = Returned(rquery, rk, TopK(SortDesc(<<>>, rscored), rk))
    /\ rpc' = "done"
    /\ UNCHANGED <<setupVars, appVars, documents, metadata, clsVars, route_ret, docs_id, indexerVars,
                   rquery, rk, rid, ri, rdoc, rscored>>

NextConc ==
    \/ IStart \/ IClearDocs \/ IClearMeta \/ IGlob \/ ILoop \/ IAppendDoc
    \/ IAppendMeta
    \/ RStart \/ RCheck \/ REnumerate \/ RNext \/ RScore \/ RSort

SpecConc == InitConc /\ [][NextConc]_vars

----------------------------------------------------------------------------
(* setup.py run on a machine where each command has its own exit status *)

InitSetup ==
    /\ RagIdle /\ ClsIdle /\ RouteIdle /\ ConcIdle /\ AppIdle
    /\ exit_codes \in ExitCodes
    /\ setup_ret = NoCall

CallSetupVirtualEnvironment ==
    /\ \E exists \in BOOLEAN :
          setup_ret' = [op |-> "setup_virtual_environment", exists |-> exists,
                        value |-> SetupVirtualEnvironment(exists, exit_codes).value,
                        attempts |-> SetupVirtualEnvironment(exists, exit_codes).attempts]
    /\ UNCHANGED <<exit_codes, appVars, ragVars, clsVars, route_ret, concVars>>

CallInstallRequirements ==
    /\ setup_ret' = [op |-> "install_requirements",
                     value |-> InstallRequirements(exit_codes).value,
                     attempts |-> InstallRequirements(exit_codes).attempts]
    /\ UNCHANGED <<exit_codes, appVars, ragVars, clsVars, route_ret, concVars>>

SetupNext == CallSetupVirtualEnvironment \/ CallInstallRequirements

SpecSetup == InitSetup /\ [][SetupNext]_vars

----------------------------------------------------------------------------
(* app.py: create_app once, then the CLI commands in any order *)

\* The documents_path argument of index-documents: its default or another.
CommandPaths == {DefaultDocumentsPath, OtherPath}

InitApp ==
    /\ RagIdle /\ ClsIdle /\ RouteIdle /\ ConcIdle /\ SetupIdle /\ AppIdle

\* IntentClassifier() inside the try block: __init__ loads or creates the
\* model file.
AppConstructsClassifier ==
    /\ constructed' = TRUE
    /\ \E outcome \in WriteOutcomes : LoadStep("__init__", outcome)

\* RAGSystem() inside the try block: __init__ indexes what the documents
\* directory holds.
AppConstructsRag ==
    /\ \E dir \in Directories :
          /\ documents' = IndexResult(NoneArg, dir).docs
          /\ metadata' = IndexResult(NoneArg, dir).meta
    /\ ret' = NoCall

\* create_app().  When a statement outside the AI block raises, create_app
\* raises and there is no app; otherwise the app is returned whatever the
\* AI block met.
CreateApp ==
    /\ app_state.status = "not_created"
    /\ \E fail_at \in FailPoints, other \in OtherFailures :
          /\ app_state' = [status |-> IF other = "none" THEN "created" ELSE "raised",
                           ai_raised_at |-> IF other = "before" THEN "none" ELSE fail_at,
                           other_raised |-> other]
          /\ app' = IF other = "none" THEN InitAiModels(NoApp, fail_at) ELSE NoApp
          /\ IF other # "before" /\ Constructs("intent_classifier", fail_at)
             THEN AppConstructsClassifier
             ELSE UNCHANGED clsVars
          /\ IF other # "before" /\ Constructs("rag_system", fail_at)
             THEN AppConstructsRag
             ELSE UNCHANGED ragVars
    /\ UNCHANGED <<cli_ret, setupVars, route_ret, concVars>>

\* flask train-models: IntentClassifier.train() logs and returns True.
CallTrainModelsCommand ==
    /\ app_state.status = "created"
    /\ cli_ret' = [op |-> "train-models",
                   echo |-> TrainModelsCommand(app).echo,
                   called_on |-> TrainModelsCommand(app).called_on]
    /\ UNCHANGED <<app, app_state, setupVars, ragVars, clsVars, route_ret, concVars>>

\* flask index-documents [documents_path]: the echo does not depend on what
\* index_documents returns.
CallIndexDocumentsCommand ==
    /\ app_state.status = "created"
    /\ cli_ret' = [op |-> "index-documents",
                   echo |-> IndexDocumentsCommand(app).echo,
                   called_on |-> IndexDocumentsCommand(app).called_on]
    /\ IF Truthy(app.rag_system)
       THEN \E arg \in CommandPaths, dir \in Directories :
               \E raises \in (IF dir.status = "ok" THEN {FALSE} ELSE BOOLEAN) :
                   IndexDocuments(arg, dir, raises)
       ELSE UNCHANGED ragVars
    /\ UNCHANGED <<app, app_state, setupVars, clsVars, route_ret, concVars>>

AppNext == CreateApp \/ CallTrainModelsCommand \/ CallIndexDocumentsCommand

SpecApp == InitApp /\ [][AppNext]_vars

----------------------------------------------------------------------------
(* Properties of index_documents and retrieve_context in sequential use *)

Retrieved == ret.op = "retrieve_context"

\* Positions of the documents that share a word with the query.
Matching(query) ==
    {i \in 1..Len(documents) : WordSet(documents[i]) \cap WordSet(query) # {}}

\* The position in the store of the document a result was built from.
PosOf(r) ==
    CHOOSE i \in 1..Len(documents) :
        documents[i] = r.text /\ metadata[i] = r.metadata

\* C2: an index_documents call on a directory that is missing or unreadable
\* leaves the documents and metadata held before the call in place.
C2_OldIndexKept ==
    [][(ret'.op = "index_documents" /\ ret'.dir.status # "ok")
          => (documents' = documents /\ metadata' = metadata)]_vars

\* The complete indexes a reader may be given: the one index_documents
\* found when it was called and the one it is building.
WholeIndexes ==
    {InitialIndex} \cup (IF ipc = "idle" THEN {} ELSE {IndexResult(iarg, idir)})

\* C3: a retrieve_context call that runs while index_documents runs ends
\* without an exception, returns what it would return on the complete old
\* index or on the complete new one, and pairs each document with the
\* metadata of the file it was read from.
C3_ReaderSeesWholeIndex ==
    rpc = "done" =>
        /\ ~ret.raised
        /\ \E idx \in WholeIndexes :
              ret.value = RetrieveValue(idx.docs, idx.meta, ret.query, ret.k)
        /\ \A i \in 1..Len(ret.value) :
              FileContent(ret.value[i].metadata.filename) = ret.value[i].text

\* C4: the result at position i of retrieve_context's return value has
\* rank = i.
C4_RankIsPosition ==
    Retrieved => \A i \in 1..Len(ret.value) : ret.value[i].rank = i

\* C5: retrieve_context's return value is sorted by descending
\* similarity_score, and results of equal score are in store order.
C5_SortedStable ==
    Retrieved =>
        \A i, j \in 1..Len(ret.value) :
            i < j =>
                /\ ~ScoreGT(ret.value[j].similarity_score,
                            ret.value[i].similarity_score)
                /\ ScoreEQ(ret.value[i].similarity_score,
                           ret.value[j].similarity_score)
                      => PosOf(ret.value[i]) < PosOf(ret.value[j])

\* A result list with a tie, a strict descent, and a document that the sort
\* moved in front of an earlier one.
C5_Witness ==
    /\ Retrieved
    /\ Len(ret.value) >= 3
    /\ \E i, j \in 1..Len(ret.value) :
          /\ i < j
          /\ ScoreEQ(ret.value[i].similarity_score, ret.value[j].similarity_score)
    /\ \E i, j \in 1..Len(ret.value) :
          /\ i < j
          /\ ScoreGT(ret.value[i].similarity_score, ret.value[j].similarity_score)
          /\ PosOf(ret.value[i]) > PosOf(ret.value[j])

\* C6: for k >= 0 retrieve_context returns only documents that share a
\* word with the query, each at most once, and min(k, m) of them, where m
\* is the number of documents that share a word with the query.
C6_OnlyMatchesMinKM ==
    Retrieved =>
        /\ Len(ret.value) = Min(ret.k, Cardinality(Matching(ret.query)))
        /\ \A i \in 1..Len(ret.value) :
              \E p \in Matching(ret.query) :
                  /\ documents[p] = ret.value[i].text
                  /\ metadata[p] = ret.value[i].metadata
        /\ \A i, j \in 1..Len(ret.value) :
              ret.value[i].metadata = ret.value[j].metadata => i = j

\* A call that cut the matches down to k, on a store that also holds a
\* document sharing no word with the query.
C6_Witness ==
    /\ Retrieved
    /\ ret.k >= 1
    /\ Len(ret.value) = ret.k
    /\ Cardinality(Matching(ret.query)) > ret.k
    /\ Cardinality(Matching(ret.query)) < Len(documents)

----------------------------------------------------------------------------
(* Properties of _determine_route *)

RouteCalled == route_ret.op = "_determine_route"

\* C1: _determine_route returns rule_based for a simple intent with
\* confidence > 0.5, otherwise rule_based for confidence < 0.3, otherwise
\* llm exactly when confidence > 0.7; confidence exactly 0.5 or 0.7 gives
\* rule_based; and no text changes the result.
C1_RouteContract ==
    RouteCalled =>
        LET i == route_ret.intent
            n == route_ret.confidence.num
            d == route_ret.confidence.den
            simple == i \in {"greeting", "goodbye", "help",
                             "simple_troubleshooting", "safety_query"}
            expected ==
                CASE simple /\ 2 * n > d -> "rule_based"
                  [] ~(simple /\ 2 * n > d) /\ 10 * n < 3 * d -> "rule_based"
                  [] ~(simple /\ 2 * n > d) /\ 10 * n >= 3 * d /\ 10 * n > 7 * d -> "llm"
                  [] OTHER -> "rule_based"
        IN /\ route_ret.value = expected
           /\ (2 * n = d \/ 10 * n = 7 * d) => route_ret.value = "rule_based"
           /\ \A t \in RouteTexts :
                 DetermineRoute(i, route_ret.confidence, t) = route_ret.value

\* A call on an intent outside the simple set with confidence exactly 0.7.
C1_Witness ==
    /\ RouteCalled
    /\ route_ret.intent = "equipment_specific"
    /\ 10 * route_ret.confidence.num = 7 * route_ret.confidence.den
    /\ route_ret.value = "rule_based"

----------------------------------------------------------------------------
(* Properties of classify *)

Classified == cret.op = "classify"

Unclear == [intent |-> "unclear", confidence |-> Frac(1, 10), route |-> "rule_based"]

NoEmptyKeyword(table) ==
    \A i \in 1..Len(table) :
        \A j \in 1..Len(table[i].keywords) : table[i].keywords[j] # <<>>

\* C7: on every non-empty intent table classify("") returns intent
\* unclear, confidence 0.1 and route rule_based.
C7_EmptyTextUnclear ==
    (Classified /\ cret.text = <<>> /\ intent_keywords # <<>>)
        => cret.value = Unclear

\* C7 as amended: on every non-empty intent table none of whose keywords is
\* the empty string, classify("") returns intent unclear, confidence 0.1
\* and route rule_based.
C7_EmptyTextUnclearNoEmptyKeyword ==
    (Classified /\ cret.text = <<>> /\ intent_keywords # <<>>
        /\ NoEmptyKeyword(intent_keywords))
        => cret.value = Unclear

\* classify("") on a table of two intents that both have keywords.
C7_Witness ==
    /\ Classified
    /\ cret.text = <<>>
    /\ Len(intent_keywords) = 2
    /\ \A i \in 1..2 : intent_keywords[i].keywords # <<>>
    /\ NoEmptyKeyword(intent_keywords)
    /\ cret.value = Unclear

\* The list positions of intent i's keywords that occur in the text.
Hits(i) ==
    {j \in 1..Len(intent_keywords[i].keywords) :
        IsSubstring(intent_keywords[i].keywords[j], LowerStr(cret.text))}

\* Intent i's accumulated score: 1/len(keywords) for each matched keyword.
Accumulated(i) == Frac(Cardinality(Hits(i)), Len(intent_keywords[i].keywords))

Scoring == {i \in 1..Len(intent_keywords) : Hits(i) # {}}

\* C8: when some intent scores, classify returns the intent of maximum
\* accumulated score, the first such in the table's order, with confidence
\* min(score, 1.0).
C8_MaxScoreFirstOnTie ==
    (Classified /\ Scoring # {}) =>
        \E b \in Scoring :
            /\ \A j \in Scoring : ~FracGT(Accumulated(j), Accumulated(b))
            /\ \A j \in Scoring : j < b => FracLT(Accumulated(j), Accumulated(b))
            /\ cret.value.intent = intent_keywords[b].intent
            /\ FracEQ(cret.value.confidence, MinOne(Accumulated(b)))
            /\ ~FracGT(cret.value.confidence, One)

\* Two intents tie for the maximum and the earlier one is returned.
C8_Witness ==
    /\ Classified
    /\ \E b, j \in Scoring :
          /\ b < j
          /\ FracEQ(Accumulated(j), Accumulated(b))
          /\ \A l \in Scoring : ~FracGT(Accumulated(l), Accumulated(b))
          /\ cret.value.intent = intent_keywords[b].intent

----------------------------------------------------------------------------
(* Pairing of documents and metadata *)

\* The files of the directory a call found that glob yields and whose read
\* raises.
FailedFiles(dir) ==
    {dir.entries[i] : i \in 1..Len(dir.entries)} \ {e \in Entries : ~IsTxt(e) \/ Readable(e)}

\* C13: between index_documents calls, whatever directories the calls so
\* far have found, documents and metadata have the same length, metadata[i]
\* names the file whose content is documents[i], and no file whose read
\* raises has an entry in either list.
C13_DocsPairedWithMetadata ==
    /\ Len(documents) = Len(metadata)
    /\ \A i \in 1..Len(metadata) :
          /\ i <= Len(documents)
          /\ Readable(metadata[i].filename)
          /\ documents[i] = FileContent(metadata[i].filename)
    /\ \A i \in 1..Len(documents) :
          /\ i <= Len(metadata)
          /\ \A e \in Entries : ~Readable(e) => documents[i] # FileContent(e)

\* A completed call on a directory that holds a file whose read raises
\* between two readable files, which are both indexed.
C13_Witness ==
    /\ ret.op = "index_documents"
    /\ ret.dir.status = "ok"
    /\ Len(ret.dir.entries) = 3
    /\ FailedFiles(ret.dir) # {}
    /\ Readable(ret.dir.entries[1])
    /\ ~Readable(ret.dir.entries[2])
    /\ IsTxt(ret.dir.entries[3]) /\ Readable(ret.dir.entries[3])
    /\ Len(documents) = 2
    /\ Len(metadata) = 2

----------------------------------------------------------------------------
(* Properties of create_app and the CLI commands *)

AllSet(a) == \A x \in DOMAIN a : a[x] = "object"

AllNone(a) == \A x \in DOMAIN a : a[x] = "None"

\* C11: when nothing outside the AI block raises, create_app returns the
\* app whatever the AI block met; in the returned app the three attributes
\* are all instances when the block ran through and all None when an import
\* or any constructor raised, also a later one after an earlier one had
\* been assigned; and on a None attribute train-models and index-documents
\* echo that the component is not available and call no method.
C11_AllOrNoneAndGuarded ==
    /\ (app_state.status # "not_created" /\ app_state.other_raised = "none")
          => app_state.status = "created"
    /\ app_state.status = "created" =>
          /\ AllSet(app) \/ AllNone(app)
          /\ app_state.ai_raised_at = "none" => AllSet(app)
          /\ app_state.ai_raised_at # "none" => AllNone(app)
    /\ (cli_ret.op = "train-models" /\ app.intent_classifier = "None") =>
          /\ cli_ret.echo = "Intent classifier not available"
          /\ cli_ret.called_on = "nothing"
    /\ (cli_ret.op = "index-documents" /\ app.rag_system = "None") =>
          /\ cli_ret.echo = "RAG system not available"
          /\ cli_ret.called_on = "nothing"
          /\ ret = NoCall
    /\ cli_ret.op \in {"train-models", "index-documents"} =>
          cli_ret.called_on # "None"

\* The first two constructors returned, RAGSystem() raised, the app started
\* and index-documents was run on it.
C11_Witness ==
    /\ app_state.status = "created"
    /\ app_state.ai_raised_at = "rag_system"
    /\ constructed
    /\ AllNone(app)
    /\ cli_ret.op = "index-documents"

----------------------------------------------------------------------------
(* Properties of install_requirements *)

Installed == setup_ret.op = "install_requirements"

Failed(attempt) == attempt.returncode # 0

\* C12: install_requirements runs the strategies in the listed order, each
\* only after every earlier command has failed and as long as none has
\* succeeded; it returns True exactly when the last command it ran
\* succeeded, and False exactly when all four commands have failed.
C12_FallbackUntilSuccess ==
    Installed =>
       LET a == setup_ret.attempts
       IN /\ Len(a) \in 1..Len(Strategies)
          /\ \A i \in 1..Len(a) : a[i].command = Strategies[i]
          /\ \A i \in 1..Len(a) : i < Len(a) => Failed(a[i])
          /\ Len(a) < Len(Strategies) => ~Failed(a[Len(a)])
          /\ setup_ret.value = TRUE <=> ~Failed(a[Len(a)])
          /\ setup_ret.value = FALSE <=>
                (Len(a) = Len(Strategies) /\ \A i \in 1..Len(a) : Failed(a[i]))

----------------------------------------------------------------------------
(* Properties of load_or_create_model and save_model *)

Unloadable(file) == ~file.exists \/ ~Decode(file.text).ok

DefaultFile == FileWith(Encode(DefaultTable))

Logged(line) == \E i \in 1..Len(cret.log) : cret.log[i] = line

\* C9: constructing the classifier on a missing or corrupt file never
\* fails and ends with the default table in memory and the default table
\* in the model file.
C9_DefaultPersisted ==
    [][(~constructed /\ constructed' /\ Unloadable(model_file))
          => (intent_keywords' = DefaultTable /\ model_file' = DefaultFile)]_vars

\* C10: a save_model that wrote the file, followed by load_or_create_model,
\* leaves the in-memory table identical to the one that was saved.
C10_RoundTrip ==
    [][(JustSaved /\ cret'.op = "load_or_create_model")
          => intent_keywords' = intent_keywords]_vars

\* A load that directly followed a successful save of a two-intent table.
C10_Witness ==
    /\ cret.op = "load_or_create_model"
    /\ cret.after_save
    /\ Logged("Simple intent classifier loaded")
    /\ Len(intent_keywords) = 2
    /\ intent_keywords[1].intent = "greeting"
    /\ intent_keywords[1].keywords # <<>>
    /\ model_file = FileWith(Encode(intent_keywords))

====
